---- MODULE Spec2Model ----
(***************************************************************************)
(* A model of the valuation engine of fat-buck (evaluate.py, utils.py).    *)
(*                                                                         *)
(* Conventions.                                                            *)
(*  - A date string is a day number >= 1; the empty string "" is 0, the    *)
(*    only falsy date.  ISO date strings compare as their dates do.        *)
(*  - Currency amounts and share counts are integers.  A value that the    *)
(*    code rounds to 2 decimals (customRound(x, 2)) is an integer number   *)
(*    of hundredths.                                                       *)
(*  - An optional value is a sequence: <<>> is None, <<s>> is s.           *)
(*  - Several specifications share the variables; each lets the variables  *)
(*    of the other parts idle.                                             *)
(***************************************************************************)
EXTENDS Integers, Sequences, FiniteSets, TLC

VARIABLES
    \* getLatestValidFinancialStatement(statements, validator)
    statements,     \* the caller's mapping date -> statement (mutated)
    statements0,    \* the mapping as it was when the caller made the call
    validator,      \* the validity predicate, statement -> BOOLEAN
    selPc,          \* "call" | "done"
    selResult,      \* the returned value: <<>> (None) or <<statement>>
    selDate,        \* latestDate of the invocation that returned
    \* getInstruction(valuation, currentPrice, model), getHealth(valuation)
    valuation,      \* the Valuation record handed to the decision functions
    currentPrice,   \* stock.currentPrice, in hundredths
    decPc,          \* "call" | "done"
    stockIsViable,  \* getViability's result inside getInstruction
    instruction,    \* valuation.instruction
    health,         \* valuation.health
    \* evaluate(stock)
    stock,          \* the Stock object handed to evaluate (mutated by it)
    results,        \* one entry per call of evaluate, in call order
    \* evaluateManager()
    files,          \* the snapshot of each symbol of getStockList(exchange):
                    \* <<>> when it cannot be read, <<stock>> otherwise
    symbolIndex,    \* the position of the for loop in the list
    batchPc,        \* "loop" | "done" | "raised" (ended by an exception)
    attempted,      \* the positions evaluateStock has been called for
    written,        \* the positions whose report has been written
    \* getEarningsBeforeInterestAndTaxForYear(stock)
    ebit            \* its result: <<>> before the call, <<value>> after

selVars == <<statements, statements0, validator, selPc, selResult, selDate>>

decVars == <<valuation, currentPrice, decPc, stockIsViable, instruction, health>>

evalVars == <<stock, results>>

batchVars == <<files, symbolIndex, batchPc, attempted, written>>

vars == <<selVars, decVars, evalVars, batchVars, ebit>>

----------------------------------------------------------------------------
\* Bounds of the model.

\* Dates of a statement history are drawn from 1..MaxDates.
MaxDates == 4

\* Abstract statements of the selector specification are 1..NumStatements.
NumStatements == 2

\* latestDate = "" (evaluate.py line 320)
EmptyDate == 0

Dates == 1..MaxDates

None == <<>>

Some(s) == <<s>>

\* Every mapping from a subset of dates to values of S.
Histories(S) == UNION {[D -> S] : D \in SUBSET Dates}

----------------------------------------------------------------------------
\* The variables of a part that a specification does not use.

SelIdle ==
    /\ statements = <<>>
    /\ statements0 = <<>>
    /\ validator = <<>>
    /\ selPc = "idle"
    /\ selResult = None
    /\ selDate = EmptyDate

DecIdle ==
    /\ valuation = <<>>
    /\ currentPrice = 0
    /\ decPc = "idle"
    /\ stockIsViable = FALSE
    /\ instruction = ""
    /\ health = ""

EvalIdle ==
    /\ stock = <<>>
    /\ results = <<>>

BatchIdle ==
    /\ files = <<>>
    /\ symbolIndex = 0
    /\ batchPc = "idle"
    /\ attempted = {}
    /\ written = {}
    /\ ebit = None

----------------------------------------------------------------------------
\* utils.py

\* A plausible slip: the comparison of getSmallest.
getLargestAsSmallest(a, b) ==
    IF a = EmptyDate THEN b ELSE IF b # EmptyDate /\ b < a THEN b ELSE a

\* def getLargest(a, b): if not a: a = b / elif b > a: a = b / return a
getLargest(a, b) ==
    IF a = EmptyDate THEN b ELSE IF b > a THEN b ELSE a

\* def safeDivide(a, b): a / b, or 0.00 when the division raises.
\* The quotient is kept as the pair <<numerator, denominator>>; <<0, 1>> is 0.
safeDivide(a, b) ==
    IF b = 0 THEN <<0, 1>> ELSE <<a, b>>

----------------------------------------------------------------------------
\* getLatestValidFinancialStatement (evaluate.py lines 319-336)

\* for date in statements: latestDate = utils.getLargest(date, latestDate)
RECURSIVE LatestDateLoop(_, _)
LatestDateLoop(dates, latestDate) ==
    IF dates = {} THEN latestDate
    ELSE LET date == CHOOSE d \in dates : TRUE
         IN  LatestDateLoop(dates \ {date}, getLargest(date, latestDate))

LatestDate(stmts) == LatestDateLoop(DOMAIN stmts, EmptyDate)

\* A plausible slip: the del statement left out, so that a retry meets the same
\* invalid entry again.
DelNothing(stmts, date) == stmts

\* del statements[latestDate]
Del(stmts, date) ==
    [d \in (DOMAIN stmts) \ {date} |-> stmts[d]]

\* A plausible slip: the statement taken with statements.pop(latestDate), which
\* removes the entry it returns.
SelectStepPop(stmts, valid) ==
    LET latestDate == LatestDate(stmts)
    IN  IF latestDate = EmptyDate
        THEN [kind |-> "none", result |-> None, statements |-> stmts,
              latestDate |-> latestDate]
        ELSE IF valid[stmts[latestDate]]
        THEN [kind |-> "valid", result |-> Some(stmts[latestDate]),
              statements |-> Del(stmts, latestDate), latestDate |-> latestDate]
        ELSE [kind |-> "retry", result |-> None,
              statements |-> Del(stmts, latestDate),
              latestDate |-> latestDate]

\* One invocation up to its return or its recursive call:
\*   kind "none":  not latestDate -> return None
\*   kind "valid": validator(statement) -> return statement
\*   kind "retry": del statements[latestDate], then the recursive call
SelectStep(stmts, valid) ==
    LET latestDate == LatestDate(stmts)
    IN  IF latestDate = EmptyDate
        THEN [kind |-> "none", result |-> None, statements |-> stmts,
              latestDate |-> latestDate]
        ELSE IF valid[stmts[latestDate]]
        THEN [kind |-> "valid", result |-> Some(stmts[latestDate]),
              statements |-> stmts, latestDate |-> latestDate]
        ELSE [kind |-> "retry", result |-> None,
              statements |-> Del(stmts, latestDate),
              latestDate |-> latestDate]

\* The whole call, recursion included: the result and the mapping it leaves.
RECURSIVE getLatestValidFinancialStatement(_, _)
getLatestValidFinancialStatement(stmts, valid) ==
    LET s == SelectStep(stmts, valid)
    IN  IF s.kind = "retry"
        THEN getLatestValidFinancialStatement(s.statements, valid)
        ELSE [result |-> s.result, statements |-> s.statements]

----------------------------------------------------------------------------
\* The decision functions (evaluate.py lines 579-632)

\* ValuationModel(): the thresholds of the viability screen, in hundredths
\* (minStatementYears in years).
ValuationModel ==
    [minRoe |-> 10, minGrowthRate |-> 5, maxDte |-> 100, minCr |-> 150,
     minEps |-> 1, maxPe |-> 1500, maxPeg |-> 100, maxPb |-> 150,
     maxBlendedMultiplier |-> 2250, minAltmanZScore |-> 180,
     minStatementYears |-> 3]

\* if valuation.altmanZScore < 1.8 (line 627), in hundredths
HealthDying == 180

\* elif valuation.altmanZScore >= 3.0 (line 629), in hundredths
HealthHealthy == 300

\* "not x" of a number
Falsy(x) == x = 0

\* A plausible slip: the P/B check written like the PEG check.
getViabilityPbStrict(v, model) ==
    ~ ( \/ v.roe < model.minRoe
        \/ v.growthRate < model.minGrowthRate
        \/ v.dte > model.maxDte
        \/ v.dte < 0
        \/ v.cr < model.minCr
        \/ v.eps < model.minEps
        \/ v.pe > model.maxPe
        \/ v.pe < 0
        \/ v.peg > model.maxPeg
        \/ v.peg < 0
        \/ Falsy(v.peg)
        \/ v.pb > model.maxPb
        \/ v.pb <= 0
        \/ v.blendedMultiplier > model.maxBlendedMultiplier
        \/ v.blendedMultiplier <= 0
        \/ Falsy(v.blendedMultiplier)
        \/ v.altmanZScore < model.minAltmanZScore
        \/ v.statementYears < model.minStatementYears )

\* def getViability(valuation, model): False if any of the listed comparisons
\* holds, True otherwise.
getViability(v, model) ==
    ~ ( \/ v.roe < model.minRoe
        \/ v.growthRate < model.minGrowthRate
        \/ v.dte > model.maxDte
        \/ v.dte < 0
        \/ v.dte < 0
        \/ v.cr < model.minCr
        \/ v.eps < model.minEps
        \/ v.pe > model.maxPe
        \/ v.pe < 0
        \/ v.peg > model.maxPeg
        \/ v.peg < 0
        \/ Falsy(v.peg)
        \/ v.pb > model.maxPb
        \/ v.pb < 0
        \/ v.blendedMultiplier > model.maxBlendedMultiplier
        \/ v.blendedMultiplier <= 0
        \/ Falsy(v.blendedMultiplier)
        \/ v.altmanZScore < model.minAltmanZScore
        \/ v.statementYears < model.minStatementYears )

\* A plausible slip: the overvalued comparison made strict.
getInstructionStrictSell(v, price, model) ==
    LET viable == getViability(v, model)
        stockIsUndervalued == price <= v.fairValue
        stockIsOvervalued == price > v.fairValue
    IN  IF ~viable \/ stockIsOvervalued THEN "SELL"
        ELSE IF viable /\ stockIsUndervalued THEN "BUY"
        ELSE "HOLD"

\* A plausible slip: the viability test left out of the rules.
getInstructionPriceOnly(v, price, model) ==
    LET stockIsUndervalued == price <= v.fairValue
        stockIsOvervalued == price >= v.fairValue
    IN  IF stockIsOvervalued THEN "SELL"
        ELSE IF stockIsUndervalued THEN "BUY"
        ELSE "HOLD"

\* A plausible slip: both price comparisons made strict, which leaves a viable
\* stock priced at its fair value to the final branch.
getInstructionBothStrict(v, price, model) ==
    LET viable == getViability(v, model)
        stockIsUndervalued == price < v.fairValue
        stockIsOvervalued == price > v.fairValue
    IN  IF ~viable \/ stockIsOvervalued THEN "SELL"
        ELSE IF viable /\ stockIsUndervalued THEN "BUY"
        ELSE "HOLD"

\* def getInstruction(valuation, currentPrice, model)
getInstruction(v, price, model) ==
    LET viable == getViability(v, model)
        stockIsUndervalued == price <= v.fairValue
        stockIsOvervalued == price >= v.fairValue
    IN  IF ~viable \/ stockIsOvervalued THEN "SELL"
        ELSE IF viable /\ stockIsUndervalued THEN "BUY"
        ELSE "HOLD"

\* A plausible slip: the lower boundary made inclusive.
getHealthDyingInclusive(v) ==
    IF v.altmanZScore <= HealthDying THEN "DYING"
    ELSE IF v.altmanZScore >= HealthHealthy THEN "HEALTHY"
    ELSE "AVERAGE"

\* def getHealth(valuation)
getHealth(v) ==
    IF v.altmanZScore < HealthDying THEN "DYING"
    ELSE IF v.altmanZScore >= HealthHealthy THEN "HEALTHY"
    ELSE "AVERAGE"

----------------------------------------------------------------------------
\* The decision specification: getInstruction and getHealth applied, as evaluate
\* applies them (lines 644-645), to a Valuation whose fields lie on either side
\* of every threshold.

AtLeast(min) == {min - 1, min}

Within(max) == {-1, 0, max + 1}

StrictlyWithin(max) == {-1, 0, 1, max + 1}

Valuations ==
    [roe : AtLeast(ValuationModel.minRoe),
     growthRate : AtLeast(ValuationModel.minGrowthRate),
     dte : Within(ValuationModel.maxDte),
     cr : AtLeast(ValuationModel.minCr),
     eps : AtLeast(ValuationModel.minEps),
     pe : Within(ValuationModel.maxPe),
     peg : StrictlyWithin(ValuationModel.maxPeg),
     pb : StrictlyWithin(ValuationModel.maxPb),
     blendedMultiplier : StrictlyWithin(ValuationModel.maxBlendedMultiplier),
     altmanZScore : {HealthDying - 1, HealthDying,
                     HealthHealthy - 1, HealthHealthy},
     statementYears : AtLeast(ValuationModel.minStatementYears),
     fairValue : {0, 1000}]

DecInit ==
    /\ SelIdle
    /\ EvalIdle
    /\ BatchIdle
    /\ valuation \in Valuations
    /\ currentPrice \in {valuation.fairValue - 1, valuation.fairValue,
                         valuation.fairValue + 1}
    /\ decPc = "call"
    /\ stockIsViable = FALSE
    /\ instruction = ""
    /\ health = ""

Decide ==
    /\ decPc = "call"
    /\ stockIsViable' = getViability(valuation, ValuationModel)
    /\ instruction' = getInstruction(valuation, currentPrice, ValuationModel)
    /\ health' = getHealth(valuation)
    /\ decPc' = "done"
    /\ UNCHANGED <<valuation, currentPrice, selVars, evalVars, batchVars, ebit>>

DecNext == Decide

SpecDecide == DecInit /\ [][DecNext]_vars

----------------------------------------------------------------------------
\* Claims about the decision functions.

\* C3: getInstruction returns SELL whenever currentPrice equals
\* valuation.fairValue, whether the stock is viable or not.
C3_SellAtFairValue ==
    (decPc = "done" /\ currentPrice = valuation.fairValue) =>
        instruction = "SELL"

\* A viable stock priced exactly at its fair value has been given SELL.
C3_Witness ==
    /\ decPc = "done"
    /\ currentPrice = valuation.fairValue
    /\ stockIsViable
    /\ instruction = "SELL"

\* C4 as stated: BUY if and only if the stock is viable and
\* currentPrice <= fairValue.
C4_BuyIffViableAndAtOrBelowFairValue ==
    decPc = "done" =>
        (instruction = "BUY" <=>
            (stockIsViable /\ currentPrice <= valuation.fairValue))

\* C4 as amended: BUY if and only if the stock is viable and
\* currentPrice < fairValue (at currentPrice = fairValue the result is SELL).
C4_BuyIffViableAndBelowFairValue ==
    decPc = "done" =>
        (instruction = "BUY" <=>
            (stockIsViable /\ currentPrice < valuation.fairValue))

\* A viable stock priced below its fair value has been given BUY.
C4_Witness ==
    /\ decPc = "done"
    /\ stockIsViable
    /\ currentPrice < valuation.fairValue
    /\ instruction = "BUY"

\* The range checks of the viability screen; the P/B check accepts pb = 0 when
\* pbInclusive and rejects it otherwise.
RangeChecks(v, model, pbInclusive) ==
    /\ v.roe >= model.minRoe
    /\ v.growthRate >= model.minGrowthRate
    /\ 0 <= v.dte /\ v.dte <= model.maxDte
    /\ v.cr >= model.minCr
    /\ v.eps >= model.minEps
    /\ 0 <= v.pe /\ v.pe <= model.maxPe
    /\ 0 < v.peg /\ v.peg <= model.maxPeg
    /\ (IF pbInclusive THEN 0 <= v.pb ELSE 0 < v.pb) /\ v.pb <= model.maxPb
    /\ 0 < v.blendedMultiplier
    /\ v.blendedMultiplier <= model.maxBlendedMultiplier
    /\ v.altmanZScore >= model.minAltmanZScore
    /\ v.statementYears >= model.minStatementYears

C11_HealthLabelByAltmanZScore ==
    decPc = "done" =>
        /\ health \in {"DYING", "AVERAGE", "HEALTHY"}
        /\ health = "DYING" <=> valuation.altmanZScore < 180
        /\ health = "HEALTHY" <=> valuation.altmanZScore >= 300
        /\ health = "AVERAGE" <=>
              (180 <= valuation.altmanZScore /\ valuation.altmanZScore < 300)

\* A score of exactly 1.8 has been labelled AVERAGE.
C11_Witness ==
    /\ decPc = "done"
    /\ valuation.altmanZScore = 180
    /\ health = "AVERAGE"

\* C13: getInstruction never returns HOLD: whatever the viability and however
\* currentPrice compares with fairValue, the result is SELL or BUY.
C13_NeverHold ==
    decPc = "done" => instruction \in {"SELL", "BUY"}

\* A non-viable stock priced below its fair value, which neither comparison
\* marks as overvalued, has been given SELL.
C13_Witness ==
    /\ decPc = "done"
    /\ ~stockIsViable
    /\ currentPrice < valuation.fairValue
    /\ instruction = "SELL"

----------------------------------------------------------------------------
\* The selector specification: one call of getLatestValidFinancialStatement
\* on any history and any validity predicate, one invocation per step.

AbstractStatements == 1..NumStatements

SelInit ==
    /\ DecIdle
    /\ EvalIdle
    /\ BatchIdle
    /\ statements \in Histories(AbstractStatements)
    /\ statements0 = statements
    /\ validator \in [AbstractStatements -> BOOLEAN]
    /\ selPc = "call"
    /\ selResult = None
    /\ selDate = EmptyDate

SelReturnNone ==
    /\ selPc = "call"
    /\ LET s == SelectStep(statements, validator)
       IN  /\ s.kind = "none"
           /\ selResult' = s.result
           /\ selDate' = s.latestDate
    /\ selPc' = "done"
    /\ UNCHANGED <<statements, statements0, validator, decVars, evalVars,
                   batchVars, ebit>>

SelReturnValid ==
    /\ selPc = "call"
    /\ LET s == SelectStep(statements, validator)
       IN  /\ s.kind = "valid"
           /\ selResult' = s.result
           /\ selDate' = s.latestDate
           /\ statements' = s.statements
    /\ selPc' = "done"
    /\ UNCHANGED <<statements0, validator, decVars, evalVars, batchVars, ebit>>

SelRetry ==
    /\ selPc = "call"
    /\ LET s == SelectStep(statements, validator)
       IN  /\ s.kind = "retry"
           /\ statements' = s.statements
    /\ UNCHANGED <<statements0, validator, selPc, selResult, selDate, decVars,
                   evalVars, batchVars, ebit>>

SelNext == SelReturnNone \/ SelReturnValid \/ SelRetry

SpecSelect == SelInit /\ [][SelNext]_vars

----------------------------------------------------------------------------
\* Claims about the selector.

ValidDates(stmts, valid) == {d \in DOMAIN stmts : valid[stmts[d]]}

MaxOf(S) == CHOOSE d \in S : \A e \in S : e <= d

\* C1: the call returns the statement stored under the largest date key whose
\* statement satisfies the predicate, and None when no statement of the mapping
\* satisfies it.
C1_LatestValidReturned ==
    selPc = "done" =>
        LET ok == ValidDates(statements0, validator)
        IN  IF ok = {} THEN selResult = None
            ELSE selResult = Some(statements0[MaxOf(ok)])

\* A call that returned an earlier valid statement after skipping later ones.
C1_Witness ==
    /\ selPc = "done"
    /\ selResult # None
    /\ \E d \in DOMAIN statements0 : d > selDate
    /\ \E d \in DOMAIN statements0 : d < selDate /\ validator[statements0[d]]

\* C2: after a call that returned a statement, every entry dated after the
\* returned one is gone from the caller's mapping, and every entry dated at or
\* before it is still there with its statement unchanged.
C2_InvalidLaterRemovedRestKept ==
    (selPc = "done" /\ selResult # None) =>
        /\ \A d \in DOMAIN statements0 :
              d > selDate => d \notin DOMAIN statements
        /\ \A d \in DOMAIN statements0 :
              d <= selDate => (d \in DOMAIN statements
                               /\ statements[d] = statements0[d])
        /\ DOMAIN statements \subseteq DOMAIN statements0

\* A call that removed two invalid later entries and kept an earlier entry.
C2_Witness ==
    /\ selPc = "done"
    /\ selResult # None
    /\ Cardinality({d \in DOMAIN statements0 : d > selDate}) >= 2
    /\ \E d \in DOMAIN statements : d < selDate

----------------------------------------------------------------------------
\* getValuation and evaluate (evaluate.py lines 25-360, 488-572, 635-647)
\*
\* The Valuation of this model holds the fields that the code computes from the
\* balance sheet, the share count, the price, the price history and the
\* statement counts.  The fields computed from the trend estimate of net income
\* (utils.getTrendEstimateForDate) and from the quarterly aggregates
\* (utils.getHistoricalValuesFromFinancialStatements), which are no part of the
\* sources, are left out of the record: growthRate, roe, roa, eps, pe, peg,
\* blendedMultiplier, dividendYield, fcf, altmanZScore and the intrinsic values
\* built on them.  Their raw divisions are kept: they decide whether the call
\* raises.

\* timedelta(days=365) (line 146)
YearDays == 365

\* math.floor(len(...) / 4) (line 357)
QuartersPerYear == 4

\* Price-history dates of the model are the first MaxPriceDates of 100, 300, ...
MaxPriceDates == 2

PriceDate(i) == 200 * i - 100

\* The moments datetime.now() is read at.
Clock == {400, 700}

Abs(x) == IF x < 0 THEN -x ELSE x

RECURSIVE Pow(_, _)
Pow(b, e) == IF e = 0 THEN 1 ELSE b * Pow(b, e - 1)

\* round(x, 2) of the quotient q = <<numerator, denominator>>, in hundredths:
\* the nearest hundredth, an exact tie going to the even one.
RoundNonNeg(n, d) ==
    LET f == (100 * n) \div d
        r == (100 * n) % d
    IN  IF 2 * r > d THEN f + 1
        ELSE IF 2 * r = d THEN f + (f % 2)
        ELSE f

customRound(q) ==
    LET n == IF q[2] < 0 THEN -q[1] ELSE q[1]
        d == Abs(q[2])
    IN  IF n < 0 THEN -RoundNonNeg(-n, d) ELSE RoundNonNeg(n, d)

\* def getEquity(assets, liabilities)
getEquity(assets, liabilities) == assets - liabilities

\* def getMarketCap(sharesOutstanding, currentPrice)
getMarketCap(sharesOutstanding, price) == sharesOutstanding * price

\* def getDte(totalDebt, equity)
getDte(totalDebt, equity) == safeDivide(totalDebt, equity)

\* def getCr(currentAssets, currentLiabilities)
getCr(currentAssets, currentLiabilities) ==
    safeDivide(currentAssets, currentLiabilities)

\* def getPb(currentPrice, equity, sharesOutstanding):
\*     safeDivide(currentPrice, safeDivide(equity, sharesOutstanding))
getPb(price, equity, sharesOutstanding) ==
    LET perShare == safeDivide(equity, sharesOutstanding)
    IN  IF perShare[1] = 0 THEN <<0, 1>>
        ELSE <<price * perShare[2], perShare[1]>>

\* The hundredth h nearest to (final / initial)^(1 / n) - 1, for positive final
\* and initial: the one with
\*   (199 + 2h)^n * initial <= final * 200^n < (201 + 2h)^n * initial,
\* looked for upwards from 0 when final >= initial and downwards otherwise.
IsNearestHundredth(h, final, initial, n) ==
    /\ Pow(199 + 2 * h, n) * initial <= final * Pow(200, n)
    /\ final * Pow(200, n) < Pow(201 + 2 * h, n) * initial

RootMinusOneRounded(final, initial, n) ==
    IF final >= initial
    THEN CHOOSE h \in 0..100 : IsNearestHundredth(h, final, initial, n)
    ELSE -(CHOOSE k \in 0..100 : IsNearestHundredth(-k, final, initial, n))

\* def getGrowthRate(values), rounded to hundredths as getValuation rounds it:
\* sign * (|final / initial| ^ (1 / n) - 1).
getGrowthRateRounded(values) ==
    IF Len(values) <= 1 THEN 0
    ELSE LET n == Len(values)
             finalValue == values[n]
             initialValue == values[1]
             isNegative == IF finalValue < 0 \/ initialValue < 0 THEN -1 ELSE 1
         IN  isNegative
               * RootMinusOneRounded(Abs(finalValue), Abs(initialValue), n)

\* The dates of a mapping in chronological order.
RECURSIVE SortedDates(_)
SortedDates(D) ==
    IF D = {} THEN <<>>
    ELSE LET first == CHOOSE d \in D : \A e \in D : d <= e
         IN  <<first>> \o SortedDates(D \ {first})

\* def getPriceGrowthRate(stock): the growth rate of the opening prices dated
\* after now - 365 days, those that are falsy skipped; now is datetime.now().
getPriceGrowthRate(stk, now) ==
    LET aYearAgo == now - YearDays
        dates == SortedDates(DOMAIN stk.historicalPricing)
        kept == SelectSeq(dates, LAMBDA d : d > aYearAgo
                                            /\ stk.historicalPricing[d] # 0)
    IN  getGrowthRateRounded([i \in 1..Len(kept) |-> stk.historicalPricing[kept[i]]])

\* def validateBalanceSheet(balanceSheet), on an optional balance sheet
validateBalanceSheet(opt) ==
    ~ ( \/ opt = None
        \/ opt[1].assets = 0
        \/ opt[1].currentAssets = 0
        \/ opt[1].liabilities = 0
        \/ opt[1].currentLiabilities = 0
        \/ opt[1].retainedEarnings = 0
        \/ opt[1].cash = 0 )

\* validateBalanceSheet as the validator argument of the selector (line 490).
BalanceSheetValidator(stmts) ==
    [b \in {stmts[d] : d \in DOMAIN stmts} |-> validateBalanceSheet(Some(b))]

\* min(floor(len / 4), floor(len / 4), floor(len / 4)) (lines 356-360)
getStatementYearsOf(incomeStatements, balanceSheets, cashFlowStatements) ==
    LET a == Cardinality(DOMAIN incomeStatements) \div QuartersPerYear
        b == Cardinality(DOMAIN balanceSheets) \div QuartersPerYear
        c == Cardinality(DOMAIN cashFlowStatements) \div QuartersPerYear
        ab == IF a < b THEN a ELSE b
    IN  IF ab < c THEN ab ELSE c

\* def getStatementYears(stock)
getStatementYears(stk) ==
    getStatementYearsOf(stk.incomeStatements, stk.balanceSheets,
                        stk.cashFlowStatements)

\* Valuation(): the record getValuation returns when no balance sheet is valid.
DefaultValuation ==
    [marketCap |-> 0, priceGrowthRate |-> 0, dte |-> 0, cr |-> 0, pb |-> 0,
     statementYears |-> 0, liquidationIv |-> 0]

\* getCr(assets, currentLiabilities) (line 557): the arguments getValuation
\* hands to getCr, of the latest valid balance sheet.
CurrentRatioOf(sheet) ==
    getCr(sheet.assets, sheet.currentLiabilities)

\* def getValuation(stock, model), called at the moment now.  The result:
\*   stock     - the stock as the call leaves it (invalid latest balance sheets
\*               removed by the selector),
\*   raised    - TRUE when the call ends in ZeroDivisionError: getDcfIv (line
\*               241), getRoeIv (line 252) and getLiquidationIv (line 295) divide
\*               by sharesOutstanding without safeDivide,
\*   valuation - the returned record (None when raised).
\*
\* getValuationAfterSelection is the body from line 493 on, given what the
\* selector call of lines 489-491 returned and left in the mapping.
getValuationAfterSelection(stk, sel, now) ==
    LET after == [stk EXCEPT !.balanceSheets = sel.statements]
    IN  IF ~validateBalanceSheet(sel.result)
        THEN [stock |-> after, raised |-> FALSE,
              valuation |-> Some(DefaultValuation)]
        ELSE IF stk.sharesOutstanding = 0
        THEN [stock |-> after, raised |-> TRUE, valuation |-> None]
        ELSE
          LET latestBalanceSheet == sel.result[1]
              assets == latestBalanceSheet.assets
              liabilities == latestBalanceSheet.liabilities
              equity == getEquity(assets, liabilities)
              currentLiabilities == latestBalanceSheet.currentLiabilities
          IN  [stock |-> after, raised |-> FALSE,
               valuation |-> Some(
                 [marketCap |->
                      100 * getMarketCap(stk.sharesOutstanding, stk.currentPrice),
                  priceGrowthRate |-> getPriceGrowthRate(after, now),
                  dte |-> customRound(getDte(currentLiabilities, equity)),
                  cr |-> customRound(CurrentRatioOf(latestBalanceSheet)),
                  pb |-> customRound(getPb(stk.currentPrice, equity,
                                           stk.sharesOutstanding)),
                  statementYears |-> getStatementYears(after),
                  liquidationIv |->
                      customRound(<<equity, stk.sharesOutstanding>>)])]

\* A plausible slip: statementYears taken from the stock as it was before the
\* selector call, deleted balance sheets included.
getValuationCountsBeforeSelection(stk, now) ==
    LET r == getValuationAfterSelection(
                 stk,
                 getLatestValidFinancialStatement(
                     stk.balanceSheets, BalanceSheetValidator(stk.balanceSheets)),
                 now)
    IN  IF r.raised \/ r.valuation = Some(DefaultValuation) THEN r
        ELSE [r EXCEPT !.valuation =
                 Some([r.valuation[1] EXCEPT
                          !.statementYears = getStatementYears(stk)])]

\* The whole of getValuation: the selector call on the stock's balance sheets
\* with validateBalanceSheet, then the body.
getValuation(stk, now) ==
    getValuationAfterSelection(
        stk,
        getLatestValidFinancialStatement(
            stk.balanceSheets, BalanceSheetValidator(stk.balanceSheets)),
        now)

\* def getExpectedReturn(valuation, currentPrice): whether its division by
\* currentPrice (line 608) raises ZeroDivisionError.
getExpectedReturnRaises(price) == price = 0

\* def evaluate(stock), called at the moment now: getValuation, then
\* getExpectedReturn on the returned record.
evaluate(stk, now) ==
    LET v == getValuation(stk, now)
    IN  IF v.raised THEN v
        ELSE IF getExpectedReturnRaises(stk.currentPrice)
        THEN [stock |-> v.stock, raised |-> TRUE, valuation |-> None]
        ELSE v

----------------------------------------------------------------------------
\* The evaluation specification: evaluate called twice on one Stock object,
\* each call at a moment of the clock no earlier than the one before.

\* The example of the end-to-end test, a sheet with no equity, and a sheet that
\* reports no cash.
SheetA ==
    [assets |-> 1000, currentAssets |-> 500, liabilities |-> 400,
     currentLiabilities |-> 200, retainedEarnings |-> 100, cash |-> 50]

SheetNoEquity ==
    [assets |-> 300, currentAssets |-> 120, liabilities |-> 300,
     currentLiabilities |-> 70, retainedEarnings |-> 10, cash |-> 5]

SheetInvalid ==
    [assets |-> 1000, currentAssets |-> 500, liabilities |-> 400,
     currentLiabilities |-> 200, retainedEarnings |-> 100, cash |-> 0]

BalanceSheets == {SheetA, SheetNoEquity, SheetInvalid}

IncomeA ==
    [totalRevenue |-> 300, netIncome |-> 30, incomeBeforeTax |-> 100,
     interestIncome |-> 10, interestExpense |-> -30]

CashFlowA ==
    [dividendsPaid |-> 5, cashFromOperations |-> 60, capex |-> -20]

\* Histories of quarterly statements dated 1..n.
Quarterly(S, sizes) == UNION {[1..n -> S] : n \in sizes}

Stocks ==
    [sharesOutstanding : {0, 100},
     currentPrice : {0, 20},
     historicalPricing :
         UNION {[{PriceDate(i) : i \in 1..n} -> {0, 1, 2}] : n \in 0..MaxPriceDates},
     balanceSheets : Quarterly(BalanceSheets, 0..MaxDates),
     incomeStatements :
         Quarterly({IncomeA}, {QuartersPerYear - 1, QuartersPerYear}),
     cashFlowStatements : Quarterly({CashFlowA}, {QuartersPerYear})]

EvalInit ==
    /\ SelIdle
    /\ DecIdle
    /\ BatchIdle
    /\ stock \in Stocks
    /\ results = <<>>

Evaluate ==
    /\ Len(results) < 2
    /\ \E now \in Clock :
          /\ Len(results) > 0 => now >= results[Len(results)].now
          /\ results' = Append(results,
                 [input |-> stock, now |-> now, out |-> evaluate(stock, now)])
          /\ stock' = results'[Len(results')].out.stock
    /\ UNCHANGED <<selVars, decVars, batchVars, ebit>>

EvalNext == Evaluate

SpecEval == EvalInit /\ [][EvalNext]_vars

----------------------------------------------------------------------------
\* Claims about evaluate.

\* The latest valid balance sheet of a stock, None when it has none.
LatestValidSheet(stk) ==
    getLatestValidFinancialStatement(
        stk.balanceSheets, BalanceSheetValidator(stk.balanceSheets)).result

\* C7: for a stock with a valid balance sheet, evaluate completes and returns
\* a Valuation without an arithmetic fault, whatever the divisors are.
C7_NoArithmeticFault ==
    \A i \in DOMAIN results :
        LatestValidSheet(results[i].input) # None => ~results[i].out.raised

\* C8: the current ratio getValuation reports is the latest valid balance
\* sheet's currentAssets divided by its currentLiabilities, rounded to 2
\* decimals.
C8_CrIsCurrentAssetsOverCurrentLiabilities ==
    \A i \in DOMAIN results :
        LET sheet == LatestValidSheet(results[i].input)
        IN  (sheet # None /\ ~results[i].out.raised) =>
                results[i].out.valuation[1].cr =
                    customRound(safeDivide(sheet[1].currentAssets,
                                           sheet[1].currentLiabilities))

\* C10: two evaluations of equal stocks return equal Valuation records,
\* whatever the moment at which each runs.
C10_EqualStocksEqualValuations ==
    \A i, j \in DOMAIN results :
        results[i].input = results[j].input =>
            /\ results[i].out.raised = results[j].out.raised
            /\ results[i].out.valuation = results[j].out.valuation

\* The balance-sheet dates the selector leaves in a stock: those with a valid
\* sheet at the same or a later date.
RemainingSheetDates(stk) ==
    {d \in DOMAIN stk.balanceSheets :
        \E e \in DOMAIN stk.balanceSheets :
            e >= d /\ validateBalanceSheet(Some(stk.balanceSheets[e]))}

\* C14: the statementYears getValuation reports count the balance sheets that
\* remain after the selector removed the invalid latest ones: it is the least
\* of floor(|incomeStatements| / 4), floor(|remaining balanceSheets| / 4) and
\* floor(|cashFlowStatements| / 4); and a second evaluate of the same stock
\* object reports the same statementYears as the first.
C14_StatementYearsCountRemainingSheets ==
    /\ \A i \in DOMAIN results :
          LET r == results[i]
              counts == {Cardinality(DOMAIN r.input.incomeStatements) \div 4,
                         Cardinality(RemainingSheetDates(r.input)) \div 4,
                         Cardinality(DOMAIN r.input.cashFlowStatements) \div 4}
          IN  (LatestValidSheet(r.input) # None /\ ~r.out.raised) =>
                  /\ r.out.valuation[1].statementYears \in counts
                  /\ \A c \in counts : r.out.valuation[1].statementYears <= c
    /\ \A i, j \in DOMAIN results :
          (~results[i].out.raised /\ ~results[j].out.raised) =>
              results[i].out.valuation[1].statementYears =
                  results[j].out.valuation[1].statementYears

\* Two evaluations of a stock with a full year of every statement whose latest
\* balance sheet was invalid: the first removed it, and both report 0 years.
C14_Witness ==
    /\ Len(results) = 2
    /\ Cardinality(DOMAIN results[1].input.incomeStatements) = 4
    /\ Cardinality(DOMAIN results[1].input.balanceSheets) = 4
    /\ Cardinality(DOMAIN results[2].input.balanceSheets) = 3
    /\ ~results[1].out.raised
    /\ ~results[2].out.raised
    /\ results[1].out.valuation[1].statementYears = 0
    /\ results[2].out.valuation[1].statementYears = 0
    /\ results[2].out.valuation # Some(DefaultValuation)

----------------------------------------------------------------------------
\* The valuation specification: one call of getValuation, the selector's
\* invocations one per step (lines 489-491) and then the body (lines 493-572).
\* statements is the mapping stock.financialStatements.balanceSheets, which the
\* selector receives by reference; stock holds it again once the call is over.
\* The interpreter runs the call to its end, hence the fairness condition.

ValuationStocks ==
    [sharesOutstanding : {0, 100},
     currentPrice : {0, 20},
     historicalPricing : {<<>>},
     balanceSheets : Quarterly(BalanceSheets, 0..MaxDates),
     incomeStatements : Quarterly({IncomeA}, {QuartersPerYear}),
     cashFlowStatements : Quarterly({CashFlowA}, {QuartersPerYear})]

ValuationInit ==
    /\ DecIdle
    /\ BatchIdle
    /\ stock \in ValuationStocks
    /\ results = <<>>
    /\ statements = stock.balanceSheets
    /\ statements0 = statements
    /\ validator = BalanceSheetValidator(statements)
    /\ selPc = "call"
    /\ selResult = None
    /\ selDate = EmptyDate

GetValuationEnds ==
    /\ selPc = "done"
    /\ results = <<>>
    /\ \E now \in Clock :
          /\ results' = <<[input |-> stock, now |-> now,
                           out |-> getValuationAfterSelection(
                                      stock,
                                      [result |-> selResult,
                                       statements |-> statements],
                                      now)]>>
          /\ stock' = results'[1].out.stock
    /\ UNCHANGED <<selVars, decVars, batchVars, ebit>>

ValuationNext ==
    SelReturnNone \/ SelReturnValid \/ SelRetry \/ GetValuationEnds

SpecValuation ==
    ValuationInit /\ [][ValuationNext]_vars /\ WF_vars(ValuationNext)

----------------------------------------------------------------------------
\* Claims about the selector inside getValuation.

\* C12: getLatestValidFinancialStatement terminates on every finite history:
\* the search comes to its end and so does getValuation; each retry removes
\* exactly one entry and leaves the others as they were; on a history in which
\* no entry satisfies the predicate the search ends with the mapping empty and
\* the result None, after which getValuation returns a default Valuation
\* without computing any ratio (no division is reached, whatever the divisors).
C12_SearchTerminatesThenDefaultValuation ==
    /\ <>(selPc = "done")
    /\ <>(results # <<>>)
    /\ [][(selPc = "call" /\ selPc' = "call") =>
            /\ Cardinality(DOMAIN statements') =
                   Cardinality(DOMAIN statements) - 1
            /\ DOMAIN statements' \subseteq DOMAIN statements
            /\ \A d \in DOMAIN statements' : statements'[d] = statements[d]]_vars
    /\ []((selPc = "done" /\ ValidDates(statements0, validator) = {}) =>
             (statements = <<>> /\ selResult = None))
    /\ []((results # <<>> /\ ValidDates(statements0, validator) = {}) =>
             /\ ~results[1].out.raised
             /\ results[1].out.valuation = Some(DefaultValuation)
             /\ results[1].out.stock.balanceSheets = <<>>)

\* A history of three invalid balance sheets has been emptied, and getValuation
\* has returned the default Valuation for a stock with no shares outstanding.
C12_Witness ==
    /\ results # <<>>
    /\ Cardinality(DOMAIN statements0) = 3
    /\ ValidDates(statements0, validator) = {}
    /\ statements = <<>>
    /\ stock.sharesOutstanding = 0
    /\ results[1].out.valuation = Some(DefaultValuation)

----------------------------------------------------------------------------
\* evaluateStock and evaluateManager (evaluate.py lines 650-692), run with
\* --exchange and --allStocks: the for loop over getStockList(exchange).

\* The longest symbol list of the model.
MaxSymbols == 2

\* The snapshots a symbol's file may hold: one balance sheet, valid or not,
\* with or without shares and a price.
BatchStocks ==
    [sharesOutstanding : {0, 100},
     currentPrice : {0, 20},
     historicalPricing : {<<>>},
     balanceSheets : Quarterly({SheetA, SheetInvalid}, {1}),
     incomeStatements : Quarterly({IncomeA}, {QuartersPerYear}),
     cashFlowStatements : Quarterly({CashFlowA}, {QuartersPerYear})]

\* def evaluateStock(symbol, exchange): open(filepath) and typedload.load raise
\* on a file that cannot be read; evaluate(stock) may raise; the report is
\* written after evaluate has returned.  TRUE when the call raises.
evaluateStockRaises(file, now) ==
    IF file = None THEN TRUE ELSE evaluate(file[1], now).raised

BatchInit ==
    /\ SelIdle
    /\ DecIdle
    /\ EvalIdle
    /\ files \in UNION {[1..n -> {None} \cup {Some(f) : f \in BatchStocks}]
                          : n \in 0..MaxSymbols}
    /\ symbolIndex = 1
    /\ batchPc = "loop"
    /\ attempted = {}
    /\ written = {}
    /\ ebit = None

\* for symbol in stocks: evaluateStock(symbol, exchange), the call returning.
EvaluateStockReturns ==
    /\ batchPc = "loop"
    /\ symbolIndex <= Len(files)
    /\ \E now \in Clock : ~evaluateStockRaises(files[symbolIndex], now)
    /\ attempted' = attempted \cup {symbolIndex}
    /\ written' = written \cup {symbolIndex}
    /\ symbolIndex' = symbolIndex + 1
    /\ UNCHANGED <<files, batchPc, selVars, decVars, evalVars, ebit>>

\* The call raising: nothing in evaluateManager catches the exception, which
\* ends the loop and the program.
EvaluateStockRaises ==
    /\ batchPc = "loop"
    /\ symbolIndex <= Len(files)
    /\ \E now \in Clock : evaluateStockRaises(files[symbolIndex], now)
    /\ attempted' = attempted \cup {symbolIndex}
    /\ batchPc' = "raised"
    /\ UNCHANGED <<files, symbolIndex, written, selVars, decVars, evalVars, ebit>>

\* The list is exhausted.
BatchEnds ==
    /\ batchPc = "loop"
    /\ symbolIndex > Len(files)
    /\ batchPc' = "done"
    /\ UNCHANGED <<files, symbolIndex, attempted, written, selVars, decVars,
                   evalVars, ebit>>

BatchNext == EvaluateStockReturns \/ EvaluateStockRaises \/ BatchEnds

SpecBatch == BatchInit /\ [][BatchNext]_vars

\* C6: a failure while evaluating one symbol does not stop the batch: once
\* the run has ended, every symbol of the list, those after a failing one
\* included, has been handed to evaluateStock.
C6_BatchSurvivesFailure ==
    batchPc \in {"done", "raised"} => attempted = 1..Len(files)

----------------------------------------------------------------------------
\* getEarningsBeforeInterestAndTaxForYear (evaluate.py lines 460-485)

\* The longest income-statement history of the EBIT specification.
MaxQuarters == 5

\* The number of quarters asked for (lines 462, 465, 468).
EbitQuarters == 4

\* utils.getHistoricalValuesFromFinancialStatements(statements, field, n): the n
\* most recent values of the field, as {date, value} in chronological order.
getHistoricalValuesFromFinancialStatements(stmts, field, n) ==
    LET dates == SortedDates(DOMAIN stmts)
        skip == IF Len(dates) > n THEN Len(dates) - n ELSE 0
    IN  [i \in 1..(Len(dates) - skip) |->
            [date |-> dates[i + skip], value |-> stmts[dates[i + skip]][field]]]

\* x == item for an int x and a {date, value} dict: never equal.
IntEqualsItem(x, item) == FALSE

\* "x in list" for an int x and a list of {date, value} dicts
IntInList(x, list) == \E k \in DOMAIN list : IntEqualsItem(x, list[k])

\* "a or b" and "c and b" of numbers, False being 0
PyOr(a, b) == IF a # 0 THEN a ELSE b

PyAnd(c, b) == IF c THEN b ELSE 0

\* The quarter of the loop at list index i (0-based): the item is a non-empty
\* dict, hence truthy, and the value of the parenthesis is
\*   incomeBeforeTax or ((0 - i) in historicalInterestExpense
\*                        and abs(interestExpense))
\*                   or ((0 + i) in historicalInterestIncome
\*                        and abs(interestIncome))
\*                   or 0
\* as Python's precedence groups it.
EbitForQuarter(ibt, ie, ii, i) ==
    PyOr(ibt[i + 1].value,
         PyOr(PyAnd(IntInList(0 - i, ie), Abs(ie[i + 1].value)),
              PyOr(PyAnd(IntInList(0 + i, ii), Abs(ii[i + 1].value)),
                   0)))

RECURSIVE EbitLoop(_, _, _, _)
EbitLoop(ibt, ie, ii, i) ==
    IF i >= Len(ibt) THEN 0
    ELSE EbitForQuarter(ibt, ie, ii, i) + EbitLoop(ibt, ie, ii, i + 1)

getEarningsBeforeInterestAndTaxForYear(stk) ==
    LET historicalIncomeBeforeTax ==
            getHistoricalValuesFromFinancialStatements(
                stk.incomeStatements, "incomeBeforeTax", EbitQuarters)
        historicalInterestExpense ==
            getHistoricalValuesFromFinancialStatements(
                stk.incomeStatements, "interestExpense", EbitQuarters)
        historicalInterestIncome ==
            getHistoricalValuesFromFinancialStatements(
                stk.incomeStatements, "interestIncome", EbitQuarters)
    IN  EbitLoop(historicalIncomeBeforeTax, historicalInterestExpense,
                 historicalInterestIncome, 0)

\* Income statements with interest paid and received, with no income before
\* tax, with a loss, and with interest that cancels.
IncomeNoIncome ==
    [totalRevenue |-> 300, netIncome |-> 0, incomeBeforeTax |-> 0,
     interestIncome |-> 0, interestExpense |-> 20]

IncomeLoss ==
    [totalRevenue |-> 300, netIncome |-> -50, incomeBeforeTax |-> -50,
     interestIncome |-> 0, interestExpense |-> 0]

IncomeCancel ==
    [totalRevenue |-> 300, netIncome |-> 30, incomeBeforeTax |-> 40,
     interestIncome |-> 7, interestExpense |-> 7]

EbitStocks ==
    [sharesOutstanding : {100},
     currentPrice : {20},
     historicalPricing : {<<>>},
     balanceSheets : Quarterly({SheetA}, {1}),
     incomeStatements :
         Quarterly({IncomeA, IncomeNoIncome, IncomeLoss, IncomeCancel},
                   0..MaxQuarters),
     cashFlowStatements : Quarterly({CashFlowA}, {QuartersPerYear})]

EbitInit ==
    /\ SelIdle
    /\ DecIdle
    /\ stock \in EbitStocks
    /\ results = <<>>
    /\ files = <<>>
    /\ symbolIndex = 0
    /\ batchPc = "idle"
    /\ attempted = {}
    /\ written = {}
    /\ ebit = None

CallEbit ==
    /\ ebit = None
    /\ ebit' = Some(getEarningsBeforeInterestAndTaxForYear(stock))
    /\ UNCHANGED <<selVars, decVars, evalVars, batchVars>>

EbitNext == CallEbit

SpecEbit == EbitInit /\ [][EbitNext]_vars

\* incomeBeforeTax + |interestExpense| - |interestIncome|, summed over the
\* dates of D.
RECURSIVE EbitSum(_, _)
EbitSum(stmts, D) ==
    IF D = {} THEN 0
    ELSE LET d == CHOOSE e \in D : TRUE
         IN  stmts[d].incomeBeforeTax + Abs(stmts[d].interestExpense)
               - Abs(stmts[d].interestIncome) + EbitSum(stmts, D \ {d})

\* C9: the result is the sum, over the (up to 4) most recent quarters, of
\* incomeBeforeTax + |interestExpense| - |interestIncome| of that quarter.
C9_EbitSumsTheFormula ==
    ebit # None =>
        LET D == DOMAIN stock.incomeStatements
            recent == {d \in D : Cardinality({e \in D : e > d}) < EbitQuarters}
        IN  ebit[1] = EbitSum(stock.incomeStatements, recent)

====
